---- MODULE Spec2Model ----
(***************************************************************************)
(* Model of the tool-kit completeness service                              *)
(* (backend/src/modules/tools/service.py, router.py, backend/src/ml/       *)
(* model.py).                                                              *)
(*                                                                         *)
(* Five specifications share the same variables and actions:              *)
(*   Spec        one single-image request, rich detection inputs: the      *)
(*               classifier analyze_tool_completeness;                     *)
(*   SpecBatch   one batch request over an archive: the batch pipeline     *)
(*               with every way an item can end;                           *)
(*   SpecArchive one batch request over archives of many names: the        *)
(*               selection of the image entries;                           *)
(*   SpecServer  several requests on the one event loop, with the clock    *)
(*               and the results directory: sessions and the shared model; *)
(*   SpecImages  one request for a stored image: the path guard.           *)
(*                                                                         *)
(* Abstractions (none of them decides a property stated below):            *)
(*   - a detection carries class_id and class_name; confidence and bbox    *)
(*     are passed through unchanged by the code and are left out;          *)
(*   - labels of the label table are "T0", "T1", ... (data/data.yaml is    *)
(*     not part of the sources);                                           *)
(*   - strings of the source that are not ASCII are transliterated;        *)
(*   - file names and paths are made of ASCII characters: str.lower()      *)
(*     changes the letters A-Z and nothing else;                           *)
(*   - the output root is writable: os.makedirs of a session directory     *)
(*     (service.py:175, model.py:210) succeeds;                            *)
(*   - Python iterates a set in an order the language does not fix: the    *)
(*     order of every list built from a set is chosen nondeterministically *)
(*     among all orders.                                                   *)
(***************************************************************************)
EXTENDS Integers, Sequences, FiniteSets, TLC

(***************************************************************************)
(* Bounds of the model.                                                    *)
(***************************************************************************)
\* largest small value of expected_tools_count explored exhaustively
MaxK == 2
\* longest detection list explored exhaustively for the small values of K
MaxDet == 3
\* labels of the label table beyond the expected ones
MaxSpareLabels == 1
\* detections put before and after the full set 0..10 when K = 11
MaxTail == 1
\* longest archive name list explored in SpecArchive
MaxEntries == 4
\* longest archive name list explored in SpecBatch
MaxItems == 3
\* number of requests that may be in flight
NumRequests == 2
\* last second of the wall clock
MaxClock == 1
\* largest number of segments of a requested image path
MaxSegs == 3

(***************************************************************************)
(* Program constants.                                                      *)
(***************************************************************************)
\* service.py:17  self.expected_tools_count = 11
ExpectedToolsCount == 11
\* service.py:88  suffix of a duplicate entry of extra_tools; the source
\* literal is the Cyrillic word for "duplicate" in parentheses, written
\* here in Latin letters
DuplicateSuffix == " (dublikat)"
\* model.py:91  prefix of the label of a class id without a label
FallbackPrefix == "class_"
\* service.py:15 and model.py:15  output root
base_output_dir == "results"
\* service.py:179-188  keys of status_summary
SummaryKeys ==
  {"complete", "missing", "extra", "mixed", "duplicates", "duplicates_only",
   "missing_duplicates", "error"}

Requests == 1..NumRequests

VARIABLES
  expected_tools_count, \* ToolService.expected_tools_count (K)
  class_names,          \* YOLOModel.class_names, the label table
  now,                  \* wall clock, in seconds
  dirs,                 \* session directories that exist under results/
  loop,                 \* request whose handler runs on the event loop, 0 = none
  upload,               \* per request: what the client sent
  pc,                   \* per request: position of its handler
  image_files,          \* per request: image_files of analyze_batch_images
  idx,                  \* per request: index of the entry being processed
  session_dir,          \* per request: session directory it uses, or NoDir
  fresh_dir,            \* per request: TRUE iff makedirs created the directory
  cur,                  \* per request: locals of the item being processed
  results,              \* per request: results of analyze_batch_images
  status_summary,       \* per request: status_summary
  processed_count,      \* per request: processed_count
  response,             \* per request: what the handler returned
  trace,                \* per request: what the collaborators did per entry
  predict_calls         \* per request: the calls of predict, as they were made

vars ==
  <<expected_tools_count, class_names, now, dirs, loop, upload, pc,
    image_files, idx, session_dir, fresh_dir, cur, results, status_summary,
    processed_count, response, trace, predict_calls>>

(***************************************************************************)
(* Helpers for Python values.                                              *)
(***************************************************************************)
\* range(n) started at 1 instead of 0
Range_from_one(n) == 1..n

\* range(n)
Range(n) == 0..(n - 1)

\* every list that enumerates the set S once (iteration order of a set)
RECURSIVE Orderings(_)
Orderings(S) ==
  IF S = {} THEN {<<>>}
  ELSE UNION {{<<x>> \o s : s \in Orderings(S \ {x})} : x \in S}

\* sequences over S of length at most n
RECURSIVE SeqsUpTo(_, _)
SeqsUpTo(S, n) ==
  IF n = 0 THEN {<<>>}
  ELSE LET shorter == SeqsUpTo(S, n - 1)
       IN shorter \cup {Append(s, x) : s \in {t \in shorter : Len(t) = n - 1}, x \in S}

\* number of occurrences of x in the list s
RECURSIVE CountIn(_, _)
CountIn(s, x) ==
  IF s = <<>> THEN 0
  ELSE (IF Head(s) = x THEN 1 ELSE 0) + CountIn(Tail(s), x)

(***************************************************************************)
(* Label table and detections (model.py).                                  *)
(***************************************************************************)
\* the label table with n labels
LabelTable(n) == [i \in 1..n |-> "T" \o ToString(i - 1)]

\* class_id < len(self.class_names)
HasLabel(class_id) == class_id < Len(class_names)

\* self.class_names[class_id] for an id that has a label
ClassName(class_id) == class_names[class_id + 1]

\* model.py:91  label of a detection, with the fallback
PredictLabel(class_id) ==
  IF HasLabel(class_id) THEN ClassName(class_id)
  ELSE FallbackPrefix \o ToString(class_id)

\* model.py:85-99  the detection dicts built from the class ids of the boxes
PredictDetections(ids) ==
  [i \in 1..Len(ids) |-> [class_id |-> ids[i], class_name |-> PredictLabel(ids[i])]]

\* service.py:19-30
convert_to_detection_items(detections_dict) ==
  [i \in 1..Len(detections_dict) |->
     [class_id |-> detections_dict[i].class_id,
      class_name |-> detections_dict[i].class_name]]

(***************************************************************************)
(* analyze_tool_completeness (service.py:32-99).                           *)
(***************************************************************************)
\* service.py:34-41  detected_classes
detected_classes(detections) ==
  {detections[i].class_id : i \in 1..Len(detections)}

\* service.py:35-40  class_counts[class_id]
class_counts(detections, class_id) ==
  Cardinality({i \in 1..Len(detections) : detections[i].class_id = class_id})

\* service.py:44
expected_classes == Range(expected_tools_count)

\* service.py:46
missing_classes(detections) == expected_classes \ detected_classes(detections)

\* line 47 with the symmetric difference ^ in place of the difference -
extra_classes_symmetric(detections) ==
  (detected_classes(detections) \ Range(expected_tools_count))
  \cup (Range(expected_tools_count) \ detected_classes(detections))

\* service.py:47
extra_classes(detections) == detected_classes(detections) \ expected_classes

\* service.py:50
duplicate_classes(detections) ==
  {class_id \in detected_classes(detections) : class_counts(detections, class_id) > 1}

\* service.py:53-55  self.model.class_names[class_id] raises for an id
\* without a label
LookupRaises(ids) == \E class_id \in ids : ~HasLabel(class_id)

\* service.py:53-55  [self.model.class_names[class_id] for class_id in order]
Labels(order) == [i \in 1..Len(order) |-> ClassName(order[i])]

\* the rule chain with rule 1 not looking at the duplicates
Status_ignoring_duplicates(total_unique_classes, missing, extra, duplicate) ==
  IF total_unique_classes = expected_tools_count /\ extra = {}
    THEN "complete"
  ELSE IF missing # {} /\ extra = {} /\ duplicate = {}
    THEN "missing"
  ELSE IF missing # {} /\ duplicate # {} /\ extra = {}
    THEN "missing_duplicates"
  ELSE IF extra # {} /\ missing = {}
    THEN "extra"
  ELSE IF extra # {} /\ missing # {}
    THEN "mixed"
  ELSE "unknown"

\* service.py:58-83  the rule chain
Status(total_unique_classes, missing, extra, duplicate) ==
  IF total_unique_classes = expected_tools_count /\ extra = {} /\ duplicate = {}
    THEN "complete"
  ELSE IF total_unique_classes = expected_tools_count /\ extra = {} /\ duplicate # {}
    THEN "duplicates"
  ELSE IF missing # {} /\ extra = {} /\ duplicate = {}
    THEN "missing"
  ELSE IF missing # {} /\ duplicate # {} /\ extra = {}
    THEN "missing_duplicates"
  ELSE IF extra # {} /\ missing = {}
    THEN "extra"
  ELSE IF extra # {} /\ missing # {}
    THEN "mixed"
  ELSE IF duplicate # {} /\ missing = {} /\ extra = {}
    THEN "duplicates_only"
  ELSE "unknown"

\* rule 5 written without its test of missing_classes
RuleCondition_extra_any(n, total_unique_classes, missing, extra, duplicate) ==
  CASE n = 1 -> total_unique_classes = expected_tools_count /\ extra = {} /\ duplicate = {}
    [] n = 2 -> total_unique_classes = expected_tools_count /\ extra = {} /\ duplicate # {}
    [] n = 3 -> missing # {} /\ extra = {} /\ duplicate = {}
    [] n = 4 -> missing # {} /\ duplicate # {} /\ extra = {}
    [] n = 5 -> extra # {}
    [] n = 6 -> extra # {} /\ missing # {}

\* service.py:60, 63, 66, 69, 72, 75  the condition of the n-th rule of the
\* chain, taken by itself
RuleCondition(n, total_unique_classes, missing, extra, duplicate) ==
  CASE n = 1 -> total_unique_classes = expected_tools_count /\ extra = {} /\ duplicate = {}
    [] n = 2 -> total_unique_classes = expected_tools_count /\ extra = {} /\ duplicate # {}
    [] n = 3 -> missing # {} /\ extra = {} /\ duplicate = {}
    [] n = 4 -> missing # {} /\ duplicate # {} /\ extra = {}
    [] n = 5 -> extra # {} /\ missing = {}
    [] n = 6 -> extra # {} /\ missing # {}

\* service.py:61, 64, 67, 70, 73, 76  the status the n-th rule assigns
RuleStatus ==
  <<"complete", "duplicates", "missing", "missing_duplicates", "extra", "mixed">>

\* service.py:62-83  the message: its shape and the numbers it interpolates
Message(status, total_unique_classes, missing, extra, duplicate) ==
  CASE status = "complete" -> [shape |-> "complete", numbers |-> <<>>]
    [] status = "duplicates" ->
         [shape |-> "duplicates", numbers |-> <<Cardinality(duplicate)>>]
    [] status = "missing" ->
         [shape |-> "missing", numbers |-> <<Cardinality(missing)>>]
    [] status = "missing_duplicates" ->
         [shape |-> "missing_duplicates",
          numbers |-> <<Cardinality(missing), Cardinality(duplicate)>>]
    [] status = "extra" ->
         [shape |-> "extra", numbers |-> <<Cardinality(extra)>>]
    [] status = "mixed" ->
         [shape |-> "mixed",
          numbers |-> <<Cardinality(missing), Cardinality(extra)>>]
    [] status = "duplicates_only" ->
         [shape |-> "duplicates_only", numbers |-> <<Cardinality(duplicate)>>]
    [] OTHER -> [shape |-> "unknown", numbers |-> <<total_unique_classes>>]

\* line 86 with "duplicates" left out of the list
DuplicateTagged_without_duplicates(status) ==
  status \in {"duplicates_only", "missing_duplicates"}

\* service.py:86  statuses for which the duplicates are added to extra_tools
DuplicateTagged(status) ==
  status \in {"duplicates", "duplicates_only", "missing_duplicates"}

\* service.py:88  f"{tool} (...)" for every duplicate tool
TaggedDuplicates(duplicate_tools) ==
  [i \in 1..Len(duplicate_tools) |-> duplicate_tools[i] \o DuplicateSuffix]

\* service.py:32-99  the outcome for the detections; missing_order,
\* extra_order and duplicate_order are the orders in which the three sets are
\* iterated.  The locals missing_classes, extra_classes and duplicate_classes
\* are kept with the outcome.
analyze_tool_completeness(detections, missing_order, extra_order, duplicate_order) ==
  LET missing == missing_classes(detections)
      extra == extra_classes(detections)
      duplicate == duplicate_classes(detections)
      total_unique_classes == Cardinality(detected_classes(detections))
      status == Status(total_unique_classes, missing, extra, duplicate)
      frame == [missing_classes |-> missing, extra_classes |-> extra,
                duplicate_classes |-> duplicate]
  IN IF LookupRaises(missing \cup extra \cup duplicate)
       THEN [raised |-> TRUE, exception |-> "IndexError", frame |-> frame]
     ELSE
       [raised |-> FALSE,
        frame |-> frame,
        status |-> status,
        total_detections |-> Len(detections),
        expected_count |-> expected_tools_count,
        missing_tools |-> Labels(missing_order),
        extra_tools |->
          IF DuplicateTagged(status)
            THEN Labels(extra_order) \o TaggedDuplicates(Labels(duplicate_order))
          ELSE Labels(extra_order),
        detected_tools |-> [i \in 1..Len(detections) |-> detections[i].class_name],
        message |-> Message(status, total_unique_classes, missing, extra, duplicate)]

\* service.py:131-136 and 219-224  AnalysisResult of a failed item
ErrorResult(exception) ==
  [raised |-> FALSE,
   frame |-> [missing_classes |-> {}, extra_classes |-> {}, duplicate_classes |-> {}],
   status |-> "error",
   total_detections |-> 0,
   expected_count |-> ExpectedToolsCount,
   missing_tools |-> <<>>,
   extra_tools |-> <<>>,
   detected_tools |-> <<>>,
   message |-> [shape |-> "error", numbers |-> <<>>, exception |-> exception]]

(***************************************************************************)
(* File names (service.py:156-160, model.py:213).  A name is the sequence  *)
(* of its characters.                                                      *)
(***************************************************************************)
\* the cased characters of the names: the upper-case letters and, at the
\* same position, what str.lower() makes of them
UpperChars ==
  <<"A", "B", "C", "D", "E", "F", "G", "H", "I", "J", "K", "L", "M",
    "N", "O", "P", "Q", "R", "S", "T", "U", "V", "W", "X", "Y", "Z">>
LowerChars ==
  <<"a", "b", "c", "d", "e", "f", "g", "h", "i", "j", "k", "l", "m",
    "n", "o", "p", "q", "r", "s", "t", "u", "v", "w", "x", "y", "z">>

\* the table of str.lower(): each upper-case letter with its lower-case one
LowerOf ==
  [c \in {UpperChars[i] : i \in 1..Len(UpperChars)} |->
     LowerChars[CHOOSE i \in 1..Len(UpperChars) : UpperChars[i] = c]]

\* str.lower() on one character
LowerChar(c) == IF c \in DOMAIN LowerOf THEN LowerOf[c] ELSE c

\* str.lower()
Lower(name) == [i \in 1..Len(name) |-> LowerChar(name[i])]

\* str.endswith(suffix)
EndsWith(name, suffix) ==
  /\ Len(suffix) <= Len(name)
  /\ SubSeq(name, Len(name) - Len(suffix) + 1, Len(name)) = suffix

\* service.py:156
image_extensions ==
  {<<".", "j", "p", "g">>, <<".", "j", "p", "e", "g">>, <<".", "p", "n", "g">>}

\* line 159 without the call of lower()
IsImageFile_case_sensitive(f) == \E ext \in image_extensions : EndsWith(f, ext)

\* service.py:159  any(f.lower().endswith(ext) for ext in image_extensions)
IsImageFile(f) == \E ext \in image_extensions : EndsWith(Lower(f), ext)

\* service.py:157-160  the image entries of the name list, in archive order
RECURSIVE ImageFiles(_)
ImageFiles(file_list) ==
  IF file_list = <<>> THEN <<>>
  ELSE (IF IsImageFile(Head(file_list)) THEN <<Head(file_list)>> ELSE <<>>)
       \o ImageFiles(Tail(file_list))

\* os.path.basename: what follows the last "/"
RECURSIVE Basename(_)
Basename(name) ==
  IF \E i \in 1..Len(name) : name[i] = "/"
    THEN Basename(SubSeq(name, (CHOOSE i \in 1..Len(name) : name[i] = "/") + 1, Len(name)))
  ELSE name

\* model.py:214  os.path.join(output_dir, f"annotated_{clean_filename}")
OutputPath(output_dir, filename) ==
  [dir |-> output_dir, file |-> <<"annotated_">> \o Basename(filename)]

\* service.py:173-174 and model.py:207-208  session directory for the second
SessionDir(prefix, second) == [root |-> base_output_dir, prefix |-> prefix, timestamp |-> second]

\* entry names the archives of the model are made of
SampleNames ==
  {<<"a", ".", "j", "p", "g">>,
   <<"B", ".", "J", "P", "G">>,
   <<"s", "/", "c", ".", "J", "p", "E", "g">>,
   <<"d", ".", "P", "N", "G">>,
   <<"e", ".", "t", "x", "t">>,
   <<"j", "p", "g">>}

\* file names of the single-image uploads of the model
SingleNames == {<<"a", ".", "j", "p", "g">>, <<"s", "/", "c", ".", "J", "p", "E", "g">>}

(***************************************************************************)
(* Values of the per-request variables.                                    *)
(***************************************************************************)
NoDir == [root |-> "", prefix |-> "", timestamp |-> -1]
NoPath == [dir |-> NoDir, file |-> <<>>]
NoResponse == [kind |-> "none"]
NoUpload == [kind |-> "none"]
NoCur == [filename |-> <<>>, detections_dict |-> <<>>, analysis |-> [raised |-> FALSE]]

\* service.py:179-188
InitialSummary == [s \in SummaryKeys |-> 0]

\* summary={} of the error reports
EmptySummary == [s \in {} |-> 0]

\* service.py:163-170 and 256-263  the report of an aborted batch
ErrorReport ==
  [kind |-> "batch", status |-> "error", total_images |-> 0, processed_images |-> 0,
   results |-> <<>>, summary |-> EmptySummary, output_directory |-> NoDir,
   total_annotated_images |-> 0]

\* router.py:20, 26, 52, 58, 61  HTTPException(status_code=400)
ClientError == [kind |-> "http", status_code |-> 400]

\* uploads a client may send as a single image (router.py:19-26)
SingleUploads ==
  {[kind |-> "single", defect |-> "bad_type", filename |-> <<>>],
   [kind |-> "single", defect |-> "empty", filename |-> <<>>]}
  \cup {[kind |-> "single", defect |-> "none", filename |-> f] : f \in SingleNames}

\* uploads a client may send as a batch (router.py:51-61, service.py:153-154);
\* names are the names of the archive, valid_zip says whether the payload
\* is an archive at all
BatchUploads(archives) ==
  {[kind |-> "batch", defect |-> d, valid_zip |-> FALSE, file_list |-> <<>>] :
     d \in {"bad_name", "empty", "too_large", "none"}}
  \cup {[kind |-> "batch", defect |-> "none", valid_zip |-> TRUE, file_list |-> a] :
          a \in archives}

(***************************************************************************)
(* The event loop (router.py:9-10, 41-42: the handlers are coroutines that *)
(* call the service without awaiting, so a handler keeps the loop from the *)
(* end of its await of file.read() to its return).                         *)
(***************************************************************************)
\* the handler of p is the one running on the loop
HoldsLoop(p) == loop = p

\* handlers declared with def: each runs in its own worker thread, none
\* waits for the loop
LoopFree_always == TRUE

\* no handler is running: the loop can start or resume one
LoopFree == loop = 0

(***************************************************************************)
(* Steps shared by the two handlers.                                       *)
(***************************************************************************)
\* service.py:241  len([r for r in results if r.annotated_image_path])
RECURSIVE AnnotatedCount(_)
AnnotatedCount(rs) ==
  IF rs = <<>> THEN 0
  ELSE (IF Head(rs).annotated_image_path # NoPath THEN 1 ELSE 0) + AnnotatedCount(Tail(rs))

\* what is remembered of the entry that was just processed
TraceEntry(filename, detections_dict, outcome) ==
  [filename |-> filename,
   outcome |-> outcome,
   ids |-> [i \in 1..Len(detections_dict) |-> detections_dict[i].class_id]]

\* the loop body without its own except clause: the exception reaches the
\* outer except clause (service.py:254-263) and the batch is aborted
ItemFailure_abort(p, filename, exception, outcome) ==
  /\ response' = [response EXCEPT ![p] = ErrorReport]
  /\ pc' = [pc EXCEPT ![p] = "done"]
  /\ loop' = 0
  /\ cur' = [cur EXCEPT ![p] = NoCur]
  /\ UNCHANGED <<results, status_summary, processed_count, trace, idx>>

\* an except clause that records nothing and leaves the entry to be
\* processed again
ItemFailure_retry(p, filename, exception, outcome) ==
  /\ cur' = [cur EXCEPT ![p] = NoCur]
  /\ pc' = [pc EXCEPT ![p] = "entry"]
  /\ UNCHANGED <<results, status_summary, processed_count, trace, idx, loop,
                 response>>

\* service.py:218-233  the except clause of the loop body: the item is
\* recorded as an error and the loop goes on with the next entry
ItemFailure(p, filename, exception, outcome) ==
  /\ results' = [results EXCEPT ![p] =
       Append(@, [filename |-> filename,
                  analysis_result |-> ErrorResult(exception),
                  annotated_image_path |-> NoPath])]
  /\ status_summary' = [status_summary EXCEPT ![p]["error"] = @ + 1]
  /\ processed_count' = [processed_count EXCEPT ![p] = @ + 1]
  /\ trace' = [trace EXCEPT ![p] =
       Append(@, TraceEntry(filename, cur[p].detections_dict, outcome))]
  /\ idx' = [idx EXCEPT ![p] = @ + 1]
  /\ cur' = [cur EXCEPT ![p] = NoCur]
  /\ pc' = [pc EXCEPT ![p] = "entry"]
  /\ UNCHANGED <<loop, response>>

\* service.py:130-145  the except clause of analyze_single_image
SingleFailure(p, filename, exception, outcome) ==
  /\ response' = [response EXCEPT ![p] =
       [kind |-> "single", status |-> "error",
        analysis_result |-> ErrorResult(exception),
        annotated_image_path |-> NoPath]]
  /\ trace' = [trace EXCEPT ![p] =
       Append(@, TraceEntry(filename, cur[p].detections_dict, outcome))]
  /\ cur' = [cur EXCEPT ![p] = NoCur]
  /\ pc' = [pc EXCEPT ![p] = "done"]
  /\ loop' = 0
  /\ UNCHANGED <<results, status_summary, processed_count, idx>>

\* an exception raised while one image is processed
Failure(p, filename, exception, outcome) ==
  IF upload[p].kind = "batch" THEN ItemFailure(p, filename, exception, outcome)
  ELSE SingleFailure(p, filename, exception, outcome)

(***************************************************************************)
(* The handlers (router.py) and the service calls they make.               *)
(***************************************************************************)
\* router.py:19-23 and 51-55  the checks before the await of file.read()
Receive(p) ==
  /\ pc[p] = "start"
  /\ LoopFree
  /\ IF upload[p].defect \in {"bad_type", "bad_name"}
       THEN /\ response' = [response EXCEPT ![p] = ClientError]
            /\ pc' = [pc EXCEPT ![p] = "done"]
       ELSE /\ pc' = [pc EXCEPT ![p] = "read"]
            /\ UNCHANGED response
  /\ UNCHANGED <<expected_tools_count, class_names, predict_calls,
                 now, dirs, loop, upload,
                 image_files, idx, session_dir, fresh_dir, cur, results,
                 status_summary, processed_count, trace>>

\* router.py:23-28 and 55-63  the handler is resumed with the payload and
\* calls the service
Resume(p) ==
  /\ pc[p] = "read"
  /\ LoopFree
  /\ IF upload[p].defect \in {"empty", "too_large"}
       THEN /\ response' = [response EXCEPT ![p] = ClientError]
            /\ pc' = [pc EXCEPT ![p] = "done"]
            /\ UNCHANGED <<loop, cur>>
       ELSE /\ loop' = p
            /\ IF upload[p].kind = "single"
                 THEN /\ pc' = [pc EXCEPT ![p] = "image"]
                      /\ cur' = [cur EXCEPT ![p] = [NoCur EXCEPT !.filename = upload[p].filename]]
                 ELSE /\ pc' = [pc EXCEPT ![p] = "open"]
                      /\ UNCHANGED cur
            /\ UNCHANGED response
  /\ UNCHANGED <<expected_tools_count, class_names, predict_calls,
                 now, dirs, upload,
                 image_files, idx, session_dir, fresh_dir, results,
                 status_summary, processed_count, trace>>

\* the check of line 162 left out
NoImages_never(files) == FALSE

\* service.py:162  if not image_files
NoImages(files) == files = <<>>

\* service.py:152-188 and 254-263  the archive is opened, its image entries
\* are listed and the session directory is made
OpenArchive(p) ==
  /\ pc[p] = "open"
  /\ HoldsLoop(p)
  /\ LET files == ImageFiles(upload[p].file_list)
         dir == SessionDir("batch_session", now)
     IN IF ~upload[p].valid_zip \/ NoImages(files)
          THEN /\ response' = [response EXCEPT ![p] = ErrorReport]
               /\ pc' = [pc EXCEPT ![p] = "done"]
               /\ loop' = 0
               /\ image_files' =
                    [image_files EXCEPT ![p] = IF upload[p].valid_zip THEN files ELSE <<>>]
               /\ UNCHANGED <<dirs, session_dir, fresh_dir, idx, results,
                              status_summary, processed_count>>
        ELSE /\ image_files' = [image_files EXCEPT ![p] = files]
             /\ session_dir' = [session_dir EXCEPT ![p] = dir]
             /\ fresh_dir' = [fresh_dir EXCEPT ![p] = dir \notin dirs]
             /\ dirs' = dirs \cup {dir}
             /\ results' = [results EXCEPT ![p] = <<>>]
             /\ processed_count' = [processed_count EXCEPT ![p] = 0]
             /\ status_summary' = [status_summary EXCEPT ![p] = InitialSummary]
             /\ idx' = [idx EXCEPT ![p] = 1]
             /\ pc' = [pc EXCEPT ![p] = "entry"]
             /\ UNCHANGED <<response, loop>>
  /\ UNCHANGED <<expected_tools_count, class_names, predict_calls,
                 now, upload, cur, trace>>

\* service.py:190-193  the next entry is read from the archive
ReadEntry(p, read_ok) ==
  /\ pc[p] = "entry"
  /\ HoldsLoop(p)
  /\ idx[p] <= Len(image_files[p])
  /\ LET filename == image_files[p][idx[p]]
     IN IF read_ok
          THEN /\ cur' = [cur EXCEPT ![p] = [NoCur EXCEPT !.filename = filename]]
               /\ pc' = [pc EXCEPT ![p] = "image"]
               /\ UNCHANGED <<results, status_summary, processed_count, trace,
                              idx, loop, response>>
        ELSE ItemFailure(p, filename, "ReadError", "read_raised")
  /\ UNCHANGED <<expected_tools_count, class_names, predict_calls,
                 now, dirs, upload,
                 image_files, session_dir, fresh_dir>>

\* service.py:106 and 195  self.model.predict is entered
PredictBegin(p) ==
  /\ pc[p] = "image"
  /\ HoldsLoop(p)
  /\ pc' = [pc EXCEPT ![p] = "predict"]
  /\ predict_calls' = [predict_calls EXCEPT ![p] =
       Append(@, [entry |-> idx[p], recorded |-> Len(results[p])])]
  /\ UNCHANGED <<expected_tools_count, class_names, now, dirs, loop, upload,
                 image_files, idx, session_dir, fresh_dir, cur, results,
                 status_summary, processed_count, response, trace>>

\* model.py:70-101  predict returns the detections of the class ids ids, or
\* raises (the image cannot be decoded, the inference fails)
PredictEnd(p, decoded, ids) ==
  /\ pc[p] = "predict"
  /\ HoldsLoop(p)
  /\ IF decoded
       THEN /\ cur' = [cur EXCEPT ![p].detections_dict = PredictDetections(ids)]
            /\ pc' = [pc EXCEPT ![p] = "classify"]
            /\ UNCHANGED <<results, status_summary, processed_count, trace, idx,
                           loop, response>>
       ELSE Failure(p, cur[p].filename, "ValueError", "predict_raised")
  /\ UNCHANGED <<expected_tools_count, class_names, predict_calls,
                 now, dirs, upload,
                 image_files, session_dir, fresh_dir>>

\* service.py:109-112 and 198-201  the detections are converted and
\* classified
Classify(p) ==
  /\ pc[p] = "classify"
  /\ HoldsLoop(p)
  /\ LET detection_items == convert_to_detection_items(cur[p].detections_dict)
     IN \E missing_order \in Orderings(missing_classes(detection_items)),
           extra_order \in Orderings(extra_classes(detection_items)),
           duplicate_order \in Orderings(duplicate_classes(detection_items)) :
          LET analysis == analyze_tool_completeness(detection_items, missing_order,
                                                    extra_order, duplicate_order)
          IN IF analysis.raised
               THEN Failure(p, cur[p].filename, analysis.exception, "classify_raised")
             ELSE /\ cur' = [cur EXCEPT ![p].analysis = analysis]
                  /\ pc' = [pc EXCEPT ![p] = "save"]
                  /\ UNCHANGED <<results, status_summary, processed_count, trace,
                                 idx, loop, response>>
  /\ UNCHANGED <<expected_tools_count, class_names, predict_calls,
                 now, dirs, upload,
                 image_files, session_dir, fresh_dir>>

\* the item is appended and counted as processed, its status is not counted
RecordResult_uncounted(p, image_result) ==
  /\ results' = [results EXCEPT ![p] = Append(@, image_result)]
  /\ UNCHANGED status_summary
  /\ processed_count' = [processed_count EXCEPT ![p] = @ + 1]
  /\ trace' = [trace EXCEPT ![p] =
       Append(@, TraceEntry(image_result.filename, cur[p].detections_dict, "ok"))]

\* service.py:206-216  the item is recorded.  A status that is no key of
\* status_summary raises KeyError after the append; the except clause then
\* records the entry a second time, as an error.
RecordResult(p, image_result) ==
  IF image_result.analysis_result.status \in DOMAIN status_summary[p]
    THEN /\ results' = [results EXCEPT ![p] = Append(@, image_result)]
         /\ status_summary' =
              [status_summary EXCEPT ![p][image_result.analysis_result.status] = @ + 1]
         /\ processed_count' = [processed_count EXCEPT ![p] = @ + 1]
         /\ trace' = [trace EXCEPT ![p] =
              Append(@, TraceEntry(image_result.filename, cur[p].detections_dict, "ok"))]
  ELSE /\ results' = [results EXCEPT ![p] =
            @ \o <<image_result,
                   [filename |-> image_result.filename,
                    analysis_result |-> ErrorResult("KeyError"),
                    annotated_image_path |-> NoPath]>>]
       /\ status_summary' = [status_summary EXCEPT ![p]["error"] = @ + 1]
       /\ processed_count' = [processed_count EXCEPT ![p] = @ + 1]
       /\ trace' = [trace EXCEPT ![p] =
            Append(@, TraceEntry(image_result.filename, cur[p].detections_dict, "summary_raised"))]

\* model.py:203-222 with service.py:115-128 and 204-216  the annotated image
\* is saved (saved is "path", "none" when imwrite reports failure, "raise"
\* when drawing or writing raises) and the item is completed
SaveAnnotated(p, saved) ==
  /\ pc[p] = "save"
  /\ HoldsLoop(p)
  /\ LET single == upload[p].kind = "single"
         output_dir == IF single THEN SessionDir("session", now) ELSE session_dir[p]
         annotated_path ==
           IF saved = "path" THEN OutputPath(output_dir, cur[p].filename) ELSE NoPath
     IN /\ dirs' = dirs \cup {output_dir}
        /\ IF single
             THEN /\ session_dir' = [session_dir EXCEPT ![p] = output_dir]
                  /\ fresh_dir' = [fresh_dir EXCEPT ![p] = output_dir \notin dirs]
             ELSE UNCHANGED <<session_dir, fresh_dir>>
        /\ IF saved = "raise"
             THEN Failure(p, cur[p].filename, "SaveError", "save_raised")
           ELSE IF single
             THEN /\ response' = [response EXCEPT ![p] =
                       [kind |-> "single", status |-> "success",
                        analysis_result |-> cur[p].analysis,
                        annotated_image_path |-> annotated_path]]
                  /\ trace' = [trace EXCEPT ![p] =
                       Append(@, TraceEntry(cur[p].filename, cur[p].detections_dict, "ok"))]
                  /\ cur' = [cur EXCEPT ![p] = NoCur]
                  /\ pc' = [pc EXCEPT ![p] = "done"]
                  /\ loop' = 0
                  /\ UNCHANGED <<results, status_summary, processed_count, idx>>
           ELSE /\ RecordResult(p, [filename |-> cur[p].filename,
                                    analysis_result |-> cur[p].analysis,
                                    annotated_image_path |-> annotated_path])
                /\ idx' = [idx EXCEPT ![p] = @ + 1]
                /\ cur' = [cur EXCEPT ![p] = NoCur]
                /\ pc' = [pc EXCEPT ![p] = "entry"]
                /\ UNCHANGED <<loop, response>>
  /\ UNCHANGED <<expected_tools_count, class_names, predict_calls,
                 now, upload, image_files>>

\* service.py:235-252  the loop is over: the completed report
FinishBatch(p) ==
  /\ pc[p] = "entry"
  /\ HoldsLoop(p)
  /\ idx[p] > Len(image_files[p])
  /\ response' = [response EXCEPT ![p] =
       [kind |-> "batch", status |-> "completed",
        total_images |-> Len(image_files[p]),
        processed_images |-> processed_count[p],
        results |-> results[p],
        summary |-> status_summary[p],
        output_directory |-> session_dir[p],
        total_annotated_images |-> AnnotatedCount(results[p])]]
  /\ pc' = [pc EXCEPT ![p] = "done"]
  /\ loop' = 0
  /\ UNCHANGED <<expected_tools_count, class_names, predict_calls,
                 now, dirs, upload,
                 image_files, idx, session_dir, fresh_dir, cur, results,
                 status_summary, processed_count, trace>>

\* a second passes (datetime.now() at service.py:173 and model.py:207)
Tick ==
  /\ now < MaxClock
  /\ now' = now + 1
  /\ UNCHANGED <<expected_tools_count, class_names, predict_calls,
                 dirs, loop, upload, pc,
                 image_files, idx, session_dir, fresh_dir, cur, results,
                 status_summary, processed_count, response, trace>>

(***************************************************************************)
(* Inputs and initial states.                                              *)
(***************************************************************************)
\* the full set 0..K-1, once each, in ascending order
FullSet(k) == [i \in 1..k |-> i - 1]

\* class ids the recognizer may report for one image in Spec
ClassifierDetections ==
  IF expected_tools_count = ExpectedToolsCount
    THEN {head \o FullSet(ExpectedToolsCount) \o tail :
            head \in SeqsUpTo({0, ExpectedToolsCount}, MaxTail),
            tail \in SeqsUpTo({0, ExpectedToolsCount}, MaxTail)}
  ELSE SeqsUpTo(0..(expected_tools_count + 1), MaxDet)

\* class ids the recognizer may report for one archive entry in SpecBatch:
\* nothing, the full set, the full set with class 0 twice, one unexpected id
BatchDetections ==
  {<<>>, FullSet(expected_tools_count), FullSet(expected_tools_count) \o <<0>>,
   <<expected_tools_count>>}

\* class ids the recognizer may report in SpecArchive
ArchiveDetections == {<<>>}

\* entry names of the archives of SpecBatch
BatchNames ==
  {<<"a", ".", "j", "p", "g">>, <<"B", ".", "J", "P", "G">>}

\* archives of SpecBatch: up to MaxItems image entries in which the two
\* names alternate, so that neighbouring entries differ by name
BatchArchives ==
  {[i \in 1..n |-> IF i % 2 = 1 THEN first ELSE CHOOSE other \in BatchNames : other # first] :
     first \in BatchNames, n \in 0..MaxItems}

\* class ids the recognizer may report in SpecServer
ServerDetections == {<<>>, FullSet(expected_tools_count)}

\* the state of the requests before any handler runs
InitRequests ==
  /\ pc = [p \in Requests |-> IF upload[p] = NoUpload THEN "absent" ELSE "start"]
  /\ now = 0
  /\ dirs = {}
  /\ loop = 0
  /\ image_files = [p \in Requests |-> <<>>]
  /\ idx = [p \in Requests |-> 0]
  /\ session_dir = [p \in Requests |-> NoDir]
  /\ fresh_dir = [p \in Requests |-> FALSE]
  /\ cur = [p \in Requests |-> NoCur]
  /\ results = [p \in Requests |-> <<>>]
  /\ status_summary = [p \in Requests |-> EmptySummary]
  /\ processed_count = [p \in Requests |-> 0]
  /\ response = [p \in Requests |-> NoResponse]
  /\ trace = [p \in Requests |-> <<>>]
  /\ predict_calls = [p \in Requests |-> <<>>]

\* one request is sent, with one of the uploads
OneRequest(uploads) ==
  /\ \E u \in uploads : upload = [p \in Requests |-> IF p = 1 THEN u ELSE NoUpload]
  /\ InitRequests

\* ToolService.__init__ and YOLOModel.load_model: K expected tools and a
\* label table that has a label for each of them
InitConfig(ks) ==
  /\ expected_tools_count \in ks
  /\ \E spare \in 0..MaxSpareLabels :
       class_names = LabelTable(expected_tools_count + spare)

Init ==
  /\ InitConfig(0..MaxK \cup {ExpectedToolsCount})
  /\ OneRequest(SingleUploads)

InitBatch ==
  /\ InitConfig({1})
  /\ OneRequest(BatchUploads(BatchArchives))

InitArchive ==
  /\ InitConfig({1})
  /\ OneRequest(BatchUploads(SeqsUpTo(SampleNames, MaxEntries)))

\* uploads of SpecServer: an image, an empty file, an archive of one image,
\* a payload that is no archive
ServerUploads ==
  {[kind |-> "single", defect |-> "none", filename |-> <<"a", ".", "j", "p", "g">>],
   [kind |-> "single", defect |-> "empty", filename |-> <<>>],
   [kind |-> "batch", defect |-> "none", valid_zip |-> TRUE,
    file_list |-> <<<<"a", ".", "j", "p", "g">>>>],
   [kind |-> "batch", defect |-> "none", valid_zip |-> FALSE, file_list |-> <<>>]}

InitServer ==
  /\ InitConfig({1})
  /\ upload \in [Requests -> ServerUploads \cup {NoUpload}]
  /\ InitRequests

(***************************************************************************)
(* Specifications.                                                         *)
(***************************************************************************)
Next ==
  \/ \E p \in Requests : Receive(p)
  \/ \E p \in Requests : Resume(p)
  \/ \E p \in Requests : PredictBegin(p)
  \/ \E p \in Requests, decoded \in BOOLEAN, ids \in ClassifierDetections :
       PredictEnd(p, decoded, ids)
  \/ \E p \in Requests : Classify(p)
  \/ \E p \in Requests, saved \in {"path", "none", "raise"} : SaveAnnotated(p, saved)
  \/ Tick

Spec == Init /\ [][Next]_vars

NextBatch ==
  \/ \E p \in Requests : Receive(p)
  \/ \E p \in Requests : Resume(p)
  \/ \E p \in Requests : OpenArchive(p)
  \/ \E p \in Requests, read_ok \in BOOLEAN : ReadEntry(p, read_ok)
  \/ \E p \in Requests : PredictBegin(p)
  \/ \E p \in Requests, decoded \in BOOLEAN, ids \in BatchDetections :
       PredictEnd(p, decoded, ids)
  \/ \E p \in Requests : Classify(p)
  \/ \E p \in Requests, saved \in {"path", "none", "raise"} : SaveAnnotated(p, saved)
  \/ \E p \in Requests : FinishBatch(p)

SpecBatch == InitBatch /\ [][NextBatch]_vars

NextArchive ==
  \/ \E p \in Requests : Receive(p)
  \/ \E p \in Requests : Resume(p)
  \/ \E p \in Requests : OpenArchive(p)
  \/ \E p \in Requests : ReadEntry(p, TRUE)
  \/ \E p \in Requests : PredictBegin(p)
  \/ \E p \in Requests, decoded \in BOOLEAN, ids \in ArchiveDetections :
       PredictEnd(p, decoded, ids)
  \/ \E p \in Requests : Classify(p)
  \/ \E p \in Requests : SaveAnnotated(p, "path")
  \/ \E p \in Requests : FinishBatch(p)

SpecArchive == InitArchive /\ [][NextArchive]_vars

NextServer ==
  \/ \E p \in Requests : Receive(p)
  \/ \E p \in Requests : Resume(p)
  \/ \E p \in Requests : OpenArchive(p)
  \/ \E p \in Requests, read_ok \in BOOLEAN : ReadEntry(p, read_ok)
  \/ \E p \in Requests : PredictBegin(p)
  \/ \E p \in Requests, decoded \in BOOLEAN, ids \in ServerDetections :
       PredictEnd(p, decoded, ids)
  \/ \E p \in Requests : Classify(p)
  \/ \E p \in Requests, saved \in {"path", "none", "raise"} : SaveAnnotated(p, saved)
  \/ \E p \in Requests : FinishBatch(p)
  \/ Tick

SpecServer == InitServer /\ [][NextServer]_vars

(***************************************************************************)
(* Properties.                                                             *)
(***************************************************************************)
\* class ids of the detections the request p is working on
CurIds(p) ==
  [i \in 1..Len(cur[p].detections_dict) |-> cur[p].detections_dict[i].class_id]

\* the elements of a list
Elements(s) == {s[i] : i \in 1..Len(s)}

\* the status the rule chain gives the class ids ids
StatusOfIds(ids) ==
  LET d == PredictDetections(ids)
  IN Status(Cardinality(detected_classes(d)), missing_classes(d), extra_classes(d),
            duplicate_classes(d))

\* p is a batch request whose loop over the entries has been entered
BatchStarted(p) == upload[p].kind = "batch" /\ session_dir[p] # NoDir

\* number of entries of the trace that ended in an exception
RECURSIVE FailedCount(_)
FailedCount(t) ==
  IF t = <<>> THEN 0
  ELSE (IF Head(t).outcome # "ok" THEN 1 ELSE 0) + FailedCount(Tail(t))

\* C1: a batch that has image entries is never aborted by failing entries:
\* whatever entries raise on read, predict, classification or saving, each
\* of them is one result with status "error" counted in summary["error"],
\* every other entry carries the status of its detections, and the report
\* is "completed" with processed_images = total_images.
C1_ItemFailuresIsolated ==
  \A p \in Requests :
    BatchStarted(p) =>
      /\ pc[p] # "done" => response[p] = NoResponse
      /\ Len(results[p]) = Len(trace[p])
      /\ processed_count[p] = Len(trace[p])
      /\ status_summary[p]["error"] = FailedCount(trace[p])
      /\ \A i \in 1..Len(trace[p]) :
           /\ results[p][i].filename = image_files[p][i]
           /\ trace[p][i].filename = image_files[p][i]
           /\ IF trace[p][i].outcome # "ok"
                THEN results[p][i].analysis_result.status = "error"
              ELSE /\ results[p][i].analysis_result.status = StatusOfIds(trace[p][i].ids)
                   /\ results[p][i].analysis_result.status # "error"
                   /\ results[p][i].analysis_result.total_detections = Len(trace[p][i].ids)
      /\ pc[p] = "done" =>
           /\ response[p].status = "completed"
           /\ response[p].total_images = Len(image_files[p])
           /\ response[p].processed_images = response[p].total_images
           /\ response[p].results = results[p]
           /\ Len(trace[p]) = Len(image_files[p])

\* C1 witness: a completed batch of three images of which exactly the second
\* failed in predict, the other two being classified
C1_Witness ==
  \E p \in Requests :
    /\ BatchStarted(p) /\ pc[p] = "done"
    /\ Len(trace[p]) = 3
    /\ trace[p][1].outcome = "ok"
    /\ trace[p][2].outcome = "predict_raised"
    /\ trace[p][3].outcome = "ok"
    /\ response[p].processed_images = 3
    /\ response[p].summary["error"] = 1

\* C2 (as claimed): an id without a label gets the fallback label instead
\* of failing: detections of classes 0..10 once each plus class 11, with
\* K = 11 and 11 labels, give status "extra", no missing tools and the
\* fallback label of 11 among extra_tools.
C2_UnknownIdGetsFallbackLabel ==
  \A p \in Requests :
    ( /\ expected_tools_count = ExpectedToolsCount
      /\ Len(class_names) = ExpectedToolsCount
      /\ pc[p] = "done"
      /\ trace[p] # <<>>
      /\ trace[p][1].ids = FullSet(ExpectedToolsCount) \o <<ExpectedToolsCount>>
      /\ trace[p][1].outcome \notin {"predict_raised", "save_raised"} )
    => /\ response[p].status = "success"
       /\ response[p].analysis_result.status = "extra"
       /\ response[p].analysis_result.missing_tools = <<>>
       /\ (FallbackPrefix \o ToString(ExpectedToolsCount))
            \in Elements(response[p].analysis_result.extra_tools)

\* the ids are exactly K distinct ids, all in 0..K-1, none twice
ExactlyTheExpected(ids) ==
  /\ Cardinality(Elements(ids)) = expected_tools_count
  /\ \A c \in Elements(ids) : c >= 0 /\ c < expected_tools_count
  /\ \A c \in Elements(ids) : CountIn(ids, c) <= 1

\* C4: the status is "complete" iff exactly K distinct class ids are
\* detected, none outside 0..K-1 and none more than once (and such
\* detections are always classified).
C4_CompleteIff ==
  \A p \in Requests :
    /\ pc[p] = "save" =>
         (cur[p].analysis.status = "complete" <=> ExactlyTheExpected(CurIds(p)))
    /\ (pc[p] = "done" /\ trace[p] # <<>> /\ trace[p][1].outcome = "classify_raised")
         => ~ExactlyTheExpected(trace[p][1].ids)

\* C4 witness: the 11 expected classes, once each, classified as complete
C4_Witness ==
  \E p \in Requests :
    /\ pc[p] = "save"
    /\ expected_tools_count = ExpectedToolsCount
    /\ CurIds(p) = FullSet(ExpectedToolsCount)
    /\ cur[p].analysis.status = "complete"

\* C5: the missing ids (0..K-1 without the detected ones) and the extra ids
\* (the detected ones without 0..K-1) are disjoint.
C5_MissingExtraDisjoint ==
  \A p \in Requests :
    /\ pc[p] = "classify" =>
         LET d == convert_to_detection_items(cur[p].detections_dict)
         IN /\ missing_classes(d) \cap extra_classes(d) = {}
            /\ missing_classes(d) =
                 {c \in 0..(expected_tools_count - 1) : c \notin Elements(CurIds(p))}
            /\ extra_classes(d) =
                 {c \in Elements(CurIds(p)) : c < 0 \/ c >= expected_tools_count}
    /\ pc[p] = "save" =>
         cur[p].analysis.frame.missing_classes \cap cur[p].analysis.frame.extra_classes = {}

\* C5 witness: an outcome with both a missing id and an extra id
C5_Witness ==
  \E p \in Requests :
    /\ pc[p] = "save"
    /\ cur[p].analysis.frame.missing_classes # {}
    /\ cur[p].analysis.frame.extra_classes # {}

\* the outcome of an empty detection list when K > 0
EmptyOutcomePositiveK(p) ==
  /\ cur[p].analysis.frame.missing_classes = 0..(expected_tools_count - 1)
  /\ Len(cur[p].analysis.missing_tools) = expected_tools_count
  /\ Elements(cur[p].analysis.missing_tools) =
       {class_names[i] : i \in 1..expected_tools_count}
  /\ cur[p].analysis.extra_tools = <<>>
  /\ cur[p].analysis.total_detections = 0
  /\ cur[p].analysis.status = "missing"

\* C6 (as claimed): an empty detection list gives, for K > 0, all K labels
\* missing, no extra tools, 0 detections and status "missing", and for
\* K = 0 status "unknown".
C6_EmptyDetectionsAsClaimed ==
  \A p \in Requests :
    (pc[p] = "save" /\ CurIds(p) = <<>>) =>
      IF expected_tools_count > 0 THEN EmptyOutcomePositiveK(p)
      ELSE cur[p].analysis.status = "unknown"

\* C6 (amended): an empty detection list is always classified; for K > 0 it
\* gives all K labels missing, no extra tools, 0 detections and status
\* "missing"; for K = 0 it gives status "complete" (rule 1 matches), with
\* nothing missing.
C6_EmptyDetections ==
  \A p \in Requests :
    /\ (pc[p] = "save" /\ CurIds(p) = <<>>) =>
         IF expected_tools_count > 0 THEN EmptyOutcomePositiveK(p)
         ELSE /\ cur[p].analysis.status = "complete"
              /\ cur[p].analysis.missing_tools = <<>>
              /\ cur[p].analysis.extra_tools = <<>>
              /\ cur[p].analysis.total_detections = 0
    /\ (pc[p] = "done" /\ trace[p] # <<>> /\ trace[p][1].outcome = "classify_raised")
         => trace[p][1].ids # <<>>

\* C6 witness: the empty detection list classified with K = 0
C6_Witness ==
  \E p \in Requests :
    /\ pc[p] = "save"
    /\ CurIds(p) = <<>>
    /\ expected_tools_count = 0
    /\ cur[p].analysis.status = "complete"

\* class 0 twice and classes 1..10 once each
ScenarioB == <<0>> \o FullSet(ExpectedToolsCount)

\* C8 (as claimed): class 0 twice and classes 1..10 once each, with K = 11
\* and labels T0..T10, give status "duplicates" and
\* extra_tools = ["T0 (duplicate)"].
C8_DuplicateSuffixAsClaimed ==
  \A p \in Requests :
    (pc[p] = "save" /\ expected_tools_count = ExpectedToolsCount /\ CurIds(p) = ScenarioB)
    => /\ cur[p].analysis.status = "duplicates"
       /\ cur[p].analysis.extra_tools = <<"T0 (duplicate)">>

\* C8 (amended): for the statuses "duplicates", "duplicates_only" and
\* "missing_duplicates" extra_tools gets one entry per class id detected
\* more than once, the label of the class followed by the suffix of
\* service.py:88 (the Cyrillic word, not " (duplicate)"), and the status
\* stays the one the rule chain gave; class 0 twice and classes 1..10 once
\* each give status "duplicates" and extra_tools = [T0 with that suffix].
C8_DuplicatesAppended ==
  \A p \in Requests :
    pc[p] = "save" =>
      LET a == cur[p].analysis
          twice == {c \in Elements(CurIds(p)) : CountIn(CurIds(p), c) > 1}
      IN /\ a.status = StatusOfIds(CurIds(p))
         /\ a.status \in {"duplicates", "duplicates_only", "missing_duplicates"} =>
              /\ Len(a.extra_tools) = Cardinality(twice)
              /\ Elements(a.extra_tools) = {class_names[c + 1] \o DuplicateSuffix : c \in twice}
         /\ (expected_tools_count = ExpectedToolsCount /\ CurIds(p) = ScenarioB) =>
              /\ a.status = "duplicates"
              /\ a.extra_tools = <<"T0" \o DuplicateSuffix>>

\* C8 witness: class 0 twice and classes 1..10 once each, classified
C8_Witness ==
  \E p \in Requests :
    /\ pc[p] = "save"
    /\ expected_tools_count = ExpectedToolsCount
    /\ CurIds(p) = ScenarioB
    /\ cur[p].analysis.status = "duplicates"
    /\ Len(cur[p].analysis.extra_tools) = 1

\* name ends, whatever the case of its letters, in .jpg, .jpeg or .png
CountsAsImage(name) ==
  LET l == Lower(name)
      n == Len(l)
  IN \/ n >= 4 /\ SubSeq(l, n - 3, n) \in {<<".", "j", "p", "g">>, <<".", "p", "n", "g">>}
     \/ n >= 5 /\ SubSeq(l, n - 4, n) = <<".", "j", "p", "e", "g">>

\* the entries of the archive that count as images, in archive order
RECURSIVE ImageEntries(_)
ImageEntries(names) ==
  IF names = <<>> THEN <<>>
  ELSE (IF CountsAsImage(Head(names)) THEN <<Head(names)>> ELSE <<>>)
       \o ImageEntries(Tail(names))

\* C3 (as claimed): every session allocation gives a directory that no other
\* run uses and that did not exist before, also for two runs started in the
\* same second with the same prefix.
C3_SessionsUnique ==
  \A p \in Requests :
    session_dir[p] # NoDir =>
      /\ fresh_dir[p]
      /\ \A q \in Requests \ {p} : session_dir[q] # session_dir[p]

\* C7: a payload that is no archive, or an archive without an image entry,
\* aborts the batch with a report, not an exception: status "error",
\* total_images = 0, processed_images = 0, results = [], summary = {};
\* predict is not invoked for any entry and no session directory is made.
C7_ArchiveFailureReported ==
  \A p \in Requests :
    ( /\ upload[p].kind = "batch"
      /\ upload[p].defect = "none"
      /\ (~upload[p].valid_zip \/ ImageEntries(upload[p].file_list) = <<>>) )
    => /\ pc[p] \in {"start", "read", "open", "done"}
       /\ trace[p] = <<>>
       /\ session_dir[p] = NoDir
       /\ dirs = {}
       /\ pc[p] = "done" =>
            /\ response[p].kind = "batch"
            /\ response[p].status = "error"
            /\ response[p].total_images = 0
            /\ response[p].processed_images = 0
            /\ response[p].results = <<>>
            /\ DOMAIN response[p].summary = {}

\* C7 witness: an archive with entries, none of them an image, reported
C7_Witness ==
  \E p \in Requests :
    /\ upload[p].kind = "batch"
    /\ upload[p].valid_zip
    /\ Len(upload[p].file_list) >= 2
    /\ ImageEntries(upload[p].file_list) = <<>>
    /\ pc[p] = "done"
    /\ response[p].status = "error"

\* C9: total_images is the number of archive entries whose name ends in
\* .jpg, .jpeg or .png, compared without regard to case; the other entries
\* are neither counted nor part of the results.
C9_TotalImagesCountsImageNames ==
  \A p \in Requests :
    (pc[p] = "done" /\ response[p].kind = "batch") =>
      /\ response[p].total_images = Len(ImageEntries(upload[p].file_list))
      /\ response[p].status = "completed" =>
           /\ Len(response[p].results) = response[p].total_images
           /\ \A i \in 1..Len(response[p].results) :
                response[p].results[i].filename = ImageEntries(upload[p].file_list)[i]

\* C9 witness: three entries ending in .jpg (in some case) and one .txt
\* entry, total_images = 3
C9_Witness ==
  \E p \in Requests :
    /\ pc[p] = "done"
    /\ response[p].kind = "batch"
    /\ response[p].status = "completed"
    /\ Len(upload[p].file_list) = 4
    /\ Cardinality({i \in 1..4 : EndsWith(Lower(upload[p].file_list[i]), <<".", "j", "p", "g">>)}) = 3
    /\ Cardinality({i \in 1..4 : upload[p].file_list[i] = <<"e", ".", "t", "x", "t">>}) = 1
    /\ \E i \in 1..4 : upload[p].file_list[i] = <<"B", ".", "J", "P", "G">>
    /\ response[p].total_images = 3

\* C10: whatever single-image and batch requests are in flight, at most one
\* call of predict of the shared model is executing.
C10_OneInferenceAtATime ==
  Cardinality({p \in Requests : pc[p] = "predict"}) <= 1

\* C10 witness: predict runs for one request while another request, already
\* received, waits in its await of file.read()
C10_Witness ==
  \E p \in Requests, q \in Requests :
    /\ p # q
    /\ pc[p] = "predict"
    /\ pc[q] = "read"
    /\ upload[q].defect = "none"

(***************************************************************************)
(* get_image (router.py:75-105).  A path is the sequence of its            *)
(* characters, as in the code, so that startswith compares characters.     *)
(***************************************************************************)
\* str.startswith(prefix)
StartsWith(str, prefix) ==
  /\ Len(prefix) <= Len(str)
  /\ SubSeq(str, 1, Len(prefix)) = prefix

\* str.split("/")
RECURSIVE SplitPath(_)
SplitPath(path) ==
  IF \A i \in 1..Len(path) : path[i] # "/" THEN <<path>>
  ELSE LET k == CHOOSE i \in 1..Len(path) :
                  path[i] = "/" /\ \A j \in 1..(i - 1) : path[j] # "/"
       IN <<SubSeq(path, 1, k - 1)>> \o SplitPath(SubSeq(path, k + 1, Len(path)))

\* "/".join(comps)
RECURSIVE JoinPath(_)
JoinPath(comps) ==
  IF comps = <<>> THEN <<>>
  ELSE IF Len(comps) = 1 THEN comps[1]
  ELSE comps[1] \o <<"/">> \o JoinPath(Tail(comps))

\* posixpath.normpath, the loop over the components: empty and "."
\* components are dropped, ".." removes the component before it (at the
\* root of an absolute path it is dropped, in a relative path it is kept)
RECURSIVE NormComps(_, _, _)
NormComps(comps, done, absolute) ==
  IF comps = <<>> THEN done
  ELSE LET c == Head(comps)
           rest == Tail(comps)
       IN IF c = <<>> \/ c = <<".">> THEN NormComps(rest, done, absolute)
          ELSE IF c # <<".", ".">> THEN NormComps(rest, Append(done, c), absolute)
          ELSE IF done # <<>> /\ done[Len(done)] # <<".", ".">>
            THEN NormComps(rest, SubSeq(done, 1, Len(done) - 1), absolute)
          ELSE IF done = <<>> /\ absolute THEN NormComps(rest, done, absolute)
          ELSE NormComps(rest, Append(done, c), absolute)

\* posixpath.normpath: exactly two leading slashes are kept
normpath(path) ==
  IF path = <<>> THEN <<".">>
  ELSE LET absolute == path[1] = "/"
           slashes == IF absolute /\ StartsWith(path, <<"/", "/">>)
                         /\ ~StartsWith(path, <<"/", "/", "/">>)
                        THEN <<"/", "/">>
                      ELSE IF absolute THEN <<"/">> ELSE <<>>
           joined == JoinPath(NormComps(SplitPath(path), <<>>, absolute))
       IN IF slashes \o joined = <<>> THEN <<".">> ELSE slashes \o joined

\* posixpath.join(a, b)
path_join(a, b) ==
  IF StartsWith(b, <<"/">>) THEN b
  ELSE IF a = <<>> \/ a[Len(a)] = "/" THEN a \o b
  ELSE a \o <<"/">> \o b

\* os.getcwd(): the working directory of the service
WorkingDir == <<"/", "a", "p", "p">>

\* os.path.abspath(path)
abspath(path) ==
  IF StartsWith(path, <<"/">>) THEN normpath(path)
  ELSE normpath(path_join(WorkingDir, path))

\* router.py:83 and 87  the string "results"
ResultsName == <<"r", "e", "s", "u", "l", "t", "s">>

\* router.py:95-98  the media type of the response
MediaType(full_path) ==
  IF \E ext \in {<<".", "p", "n", "g">>, <<".", "j", "p", "g">>, <<".", "j", "p", "e", "g">>} :
       EndsWith(Lower(full_path), ext)
    THEN "image/jpeg"
  ELSE "application/octet-stream"

\* router.py:87  the check that lets the request through
GuardPasses(full_path) == StartsWith(full_path, abspath(ResultsName))

\* router.py:75-105  the image at image_path is requested; exists is what
\* os.path.exists says of the resolved path
GetImage(p, exists) ==
  /\ pc[p] = "start"
  /\ upload[p].kind = "get"
  /\ LoopFree
  /\ LET full_path == abspath(path_join(ResultsName, upload[p].image_path))
     IN response' = [response EXCEPT ![p] =
          IF ~GuardPasses(full_path) THEN [kind |-> "http", status_code |-> 403]
          ELSE IF ~exists THEN [kind |-> "http", status_code |-> 404]
          ELSE [kind |-> "file", path |-> full_path, media_type |-> MediaType(full_path)]]
  /\ pc' = [pc EXCEPT ![p] = "done"]
  /\ UNCHANGED <<expected_tools_count, class_names, predict_calls,
                 now, dirs, loop, upload,
                 image_files, idx, session_dir, fresh_dir, cur, results,
                 status_summary, processed_count, trace>>

\* segments the requested paths of the model are made of: the parent
\* directory, a session directory, a file, the name of the output root and
\* a name that starts with it
PathSegments ==
  {<<".", ".">>, <<"s">>, <<"a", ".", "p", "n", "g">>, ResultsName,
   ResultsName \o <<"2">>}

\* image paths a client may request: relative ones and ones that start
\* with a slash
GetUploads ==
  LET relative == {JoinPath(segs) : segs \in SeqsUpTo(PathSegments, MaxSegs)}
  IN {[kind |-> "get", image_path |-> r] : r \in relative}
     \cup {[kind |-> "get", image_path |-> <<"/">> \o r] : r \in relative}

InitImages ==
  /\ InitConfig({ExpectedToolsCount})
  /\ OneRequest(GetUploads)

NextImages == \E p \in Requests, exists \in BOOLEAN : GetImage(p, exists)

SpecImages == InitImages /\ [][NextImages]_vars

\* components of the path that image_path resolves to under the output root
ResolvedComps(image_path) ==
  IF image_path # <<>> /\ image_path[1] = "/"
    THEN NormComps(SplitPath(image_path), <<>>, TRUE)
  ELSE NormComps(<<<<"a", "p", "p">>, ResultsName>> \o SplitPath(image_path), <<>>, TRUE)

\* the resolved path is the output root or lies below it
InsideRoot(image_path) ==
  LET comps == ResolvedComps(image_path)
  IN Len(comps) >= 2 /\ comps[1] = <<"a", "p", "p">> /\ comps[2] = ResultsName

\* C11 (as claimed): get_image rejects every request whose resolved path
\* lies outside the output root "results", also one that resolves to a
\* sibling directory whose name starts with "results"; a file outside the
\* root is never served and only paths inside the root yield not-found.
C11_PathGuard ==
  \A p \in Requests :
    (upload[p].kind = "get" /\ pc[p] = "done") =>
      /\ ~InsideRoot(upload[p].image_path) =>
           (response[p].kind = "http" /\ response[p].status_code = 403)
      /\ response[p].kind = "file" => InsideRoot(upload[p].image_path)

\* sum of the counters of a summary
RECURSIVE SummaryTotal(_)
SummaryTotal(summary) ==
  IF DOMAIN summary = {} THEN 0
  ELSE LET s == CHOOSE k \in DOMAIN summary : TRUE
       IN summary[s] + SummaryTotal([k \in DOMAIN summary \ {s} |-> summary[k]])

\* number of items of rs whose analysis has the status s
StatusCount(rs, s) ==
  Cardinality({i \in 1..Len(rs) : rs[i].analysis_result.status = s})

\* C12: in every completed batch report each counter summary[s] is the
\* number of results with status s, every result has a status that is
\* counted, and the counters sum up to len(results) = processed_images =
\* total_images, whatever entries succeeded or failed.
C12_SummaryCountsResults ==
  \A p \in Requests :
    (pc[p] = "done" /\ response[p].kind = "batch" /\ response[p].status = "completed") =>
      LET report == response[p]
      IN /\ \A s \in DOMAIN report.summary :
              report.summary[s] = StatusCount(report.results, s)
         /\ \A i \in 1..Len(report.results) :
              report.results[i].analysis_result.status \in DOMAIN report.summary
         /\ SummaryTotal(report.summary) = Len(report.results)
         /\ Len(report.results) = report.processed_images
         /\ report.processed_images = report.total_images

\* C12 witness: a completed report of three images with one entry that
\* failed, one complete set and one set with a duplicate
C12_Witness ==
  \E p \in Requests :
    /\ pc[p] = "done"
    /\ response[p].kind = "batch"
    /\ response[p].status = "completed"
    /\ response[p].total_images = 3
    /\ response[p].summary["error"] = 1
    /\ response[p].summary["complete"] = 1
    /\ response[p].summary["duplicates"] = 1
    /\ response[p].results[2].analysis_result.status = "error"

\* C13 (as claimed): whenever the detections hold an id outside 0..K-1 and
\* lack an expected id, analyze_tool_completeness returns "mixed", also
\* when an id occurs twice: the message gives the numbers of missing and
\* extra ids and extra_tools is exactly the labels of the extra ids, with
\* no entry tagged as duplicate.
C13_MixedDropsDuplicates ==
  \A p \in Requests :
    ( /\ pc[p] = "done"
      /\ upload[p].kind = "single"
      /\ trace[p] # <<>>
      /\ trace[p][1].outcome \notin {"predict_raised", "save_raised"}
      /\ extra_classes(PredictDetections(trace[p][1].ids)) # {}
      /\ missing_classes(PredictDetections(trace[p][1].ids)) # {} )
    => LET d == PredictDetections(trace[p][1].ids)
           analysis == response[p].analysis_result
       IN /\ response[p].status = "success"
          /\ analysis.status = "mixed"
          /\ analysis.message =
               [shape |-> "mixed",
                numbers |-> <<Cardinality(missing_classes(d)), Cardinality(extra_classes(d))>>]
          /\ Len(analysis.extra_tools) = Cardinality(extra_classes(d))
          /\ Elements(analysis.extra_tools) = {ClassName(c) : c \in extra_classes(d)}

\* the rules of the chain whose condition holds for the detections d
RulesHolding(d) ==
  {n \in DOMAIN RuleStatus :
     RuleCondition(n, Cardinality(detected_classes(d)), missing_classes(d),
                   extra_classes(d), duplicate_classes(d))}

\* C14: for every detection list and every K the conditions of rules 1-6
\* are mutually exclusive and jointly exhaustive: exactly one holds, and
\* the chain assigns the status of that rule.  So no returned status is
\* "duplicates_only" or "unknown" and every returned status is a key of
\* the status_summary dictionary of the batch.
C14_RulesPartition ==
  \A p \in Requests :
    /\ pc[p] = "classify" =>
         LET d == convert_to_detection_items(cur[p].detections_dict)
         IN /\ Cardinality(RulesHolding(d)) = 1
            /\ \A n \in RulesHolding(d) :
                 Status(Cardinality(detected_classes(d)), missing_classes(d),
                        extra_classes(d), duplicate_classes(d)) = RuleStatus[n]
    /\ pc[p] = "save" =>
         /\ cur[p].analysis.status \notin {"duplicates_only", "unknown"}
         /\ cur[p].analysis.status \in SummaryKeys
         /\ RulesHolding(convert_to_detection_items(cur[p].detections_dict)) # {}
         /\ \A n \in RulesHolding(convert_to_detection_items(cur[p].detections_dict)) :
              cur[p].analysis.status = RuleStatus[n]

\* C14 witness: all K = 2 expected ids are detected, one of them twice and
\* none is extra (the case the seventh rule is written for): the status
\* returned is "duplicates", by the second rule alone
C14_Witness ==
  \E p \in Requests :
    /\ pc[p] = "save"
    /\ expected_tools_count = 2
    /\ CurIds(p) = <<0, 1, 1>>
    /\ RulesHolding(convert_to_detection_items(cur[p].detections_dict)) = {2}
    /\ cur[p].analysis.status = "duplicates"

\* C15: the entries of a batch are processed one after the other in the
\* order of the archive and none is retried: predict is called at most once
\* per image entry, in ascending order, and when it is called for an entry
\* the results of all entries before it, and of no other, are recorded; the
\* results list holds one item per image entry in the order of the
\* entries, for failed entries as for the others.
C15_SequentialNoRetry ==
  \A p \in Requests :
    BatchStarted(p) =>
      LET calls == predict_calls[p]
      IN /\ \A k \in 1..Len(calls) :
              /\ calls[k].entry \in 1..Len(image_files[p])
              /\ calls[k].recorded = calls[k].entry - 1
              /\ \A j \in 1..(k - 1) : calls[j].entry < calls[k].entry
         /\ Len(results[p]) <= Len(image_files[p])
         /\ \A i \in 1..Len(results[p]) : results[p][i].filename = image_files[p][i]
         /\ \A k \in 1..Len(calls) :
              calls[k].entry <= Len(results[p]) + 1
         /\ pc[p] \in {"predict", "classify", "save"} =>
              /\ calls # <<>>
              /\ calls[Len(calls)].entry = idx[p]
              /\ Len(results[p]) = idx[p] - 1
         /\ pc[p] = "done" =>
              /\ Len(results[p]) = Len(image_files[p])
              /\ response[p].results = results[p]

\* C15 witness: a completed batch of three images whose second entry could
\* not be read: predict was called for the first and the third entry, once
\* each, and the three results are in the order of the entries
C15_Witness ==
  \E p \in Requests :
    /\ BatchStarted(p) /\ pc[p] = "done"
    /\ image_files[p] =
         <<<<"a", ".", "j", "p", "g">>, <<"B", ".", "J", "P", "G">>, <<"a", ".", "j", "p", "g">>>>
    /\ predict_calls[p] = <<[entry |-> 1, recorded |-> 0], [entry |-> 3, recorded |-> 2]>>
    /\ Len(response[p].results) = 3
    /\ response[p].results[2].analysis_result.status = "error"
    /\ response[p].results[2].filename = <<"B", ".", "J", "P", "G">>
    /\ response[p].results[3].analysis_result.status = "complete"

====
